---- MODULE Spec2Model ----
(***************************************************************************)
(* Model of the Index page component (src/src/pages/Index.tsx) and of the  *)
(* ScreenCaptureSettings dialog: the outcome history, the four prediction  *)
(* methods with their accuracy counters, the best-method selection, and    *)
(* the screen-monitoring session (stream, region, 30 s sampling interval). *)
(*                                                                         *)
(* React specifics that the model keeps:                                   *)
(*  - every handler works on the state of the render that created it; the  *)
(*    setInterval callback is created by the effect on                     *)
(*    [isMonitoring, captureArea] and keeps the analyzeScreen of THAT      *)
(*    render (its history, methods, currentPrediction, sensitivity and     *)
(*    captureArea) until the effect runs again;                            *)
(*  - the effect on [history] (makePrediction) runs after the render that  *)
(*    follows a history change and is part of the action that caused it.   *)
(***************************************************************************)
EXTENDS Integers, Sequences, FiniteSets, TLC

\* ---------------------------------------------------------------- bounds
MaxTime == 65000
FineUntil == 5000
MaxHist == 3
HalfPixels == 2
MaxPrefix == 7

\* ------------------------------------------------------ program constants
DebounceMs == 5000
IntervalMs == 30000
MinSide == 50
SliderMin == 10
SliderMax == 50
SliderStep == 5
InitialSensitivity == 30
Last5Window == 5
Last5Limit == 2
PatternLen == 3

Null == "null"
\* null in a place that otherwise holds an object
NullObject == [isNull |-> TRUE]
Results == {"alpha", "omega"}
Delays == {DebounceMs, IntervalMs}
SliderValues == {v \in SliderMin..SliderMax : (v - SliderMin) % SliderStep = 0}
\* the slider positions tried by the model
SliderInputs == {SliderMin, InitialSensitivity, SliderMax}
Sides == {MinSide, MinSide + 1}
NoInterval == [active |-> FALSE]
\* no cycle has run yet in the monitoring session
NoCycle == -1

VARIABLES history, currentPrediction, bestMethod, isCapturing, captureArea,
          isMonitoring, showSettings, sensitivity, lastDetected, streamRef,
          streamTracks, methods, interval, now, event

vars == <<history, currentPrediction, bestMethod, isCapturing, captureArea,
          isMonitoring, showSettings, sensitivity, lastDetected, streamRef,
          streamTracks, methods, interval, now, event>>

\* the component's own state (everything but the clock and the step record)
progVars == <<history, currentPrediction, bestMethod, isCapturing, captureArea,
              isMonitoring, showSettings, sensitivity, lastDetected, streamRef,
              streamTracks, methods, interval>>

captureVars == <<isCapturing, captureArea, isMonitoring, showSettings,
                 sensitivity, lastDetected, streamRef, streamTracks, interval>>

\* ------------------------------------------------------------ strategies
CountResult(hist, r) == Cardinality({i \in 1..Len(hist) : hist[i].result = r})

\* hist.slice(-k)
SliceLast(hist, k) ==
    IF Len(hist) <= k THEN hist ELSE SubSeq(hist, Len(hist) - k + 1, Len(hist))

\* variant: a tie goes to alpha (>=)
PredictFrequencyTieAlpha(hist) ==
    IF CountResult(hist, "alpha") >= CountResult(hist, "omega")
    THEN "alpha" ELSE "omega"

PredictFrequency(hist) ==
    IF CountResult(hist, "alpha") > CountResult(hist, "omega")
    THEN "alpha" ELSE "omega"

\* variant: the vote is taken over the whole history
PredictLast5WholeHistory(hist) ==
    IF CountResult(hist, "alpha") > Last5Limit THEN "omega" ELSE "alpha"

PredictLast5(hist) ==
    IF CountResult(SliceLast(hist, Last5Window), "alpha") > Last5Limit
    THEN "omega" ELSE "alpha"

\* variant: a mixed pattern repeats the most recent entry
PredictPatternRepeatsLast(hist) ==
    IF Len(hist) < PatternLen THEN "alpha"
    ELSE LET last3 == SliceLast(hist, PatternLen) IN
         IF \A i \in 1..Len(last3) : last3[i].result = "alpha" THEN "omega"
         ELSE IF \A i \in 1..Len(last3) : last3[i].result = "omega" THEN "alpha"
         ELSE last3[Len(last3)].result

PredictPattern(hist) ==
    IF Len(hist) < PatternLen THEN "alpha"
    ELSE LET last3 == SliceLast(hist, PatternLen) IN
         IF \A i \in 1..Len(last3) : last3[i].result = "alpha" THEN "omega"
         ELSE IF \A i \in 1..Len(last3) : last3[i].result = "omega" THEN "alpha"
         ELSE IF last3[Len(last3)].result = "alpha" THEN "omega" ELSE "alpha"

Transitions(hist, a, b) ==
    Cardinality({i \in 1..(Len(hist) - 1) :
                    hist[i].result = a /\ hist[i + 1].result = b})

\* variant: equal transition counts switch the symbol (>=)
PredictProbabilityTieSwitches(hist) ==
    IF Len(hist) < 2 THEN "alpha"
    ELSE IF hist[Len(hist)].result = "alpha"
         THEN IF Transitions(hist, "alpha", "omega") >= Transitions(hist, "alpha", "alpha")
              THEN "omega" ELSE "alpha"
         ELSE IF Transitions(hist, "omega", "alpha") >= Transitions(hist, "omega", "omega")
              THEN "alpha" ELSE "omega"

PredictProbability(hist) ==
    IF Len(hist) < 2 THEN "alpha"
    ELSE IF hist[Len(hist)].result = "alpha"
         THEN IF Transitions(hist, "alpha", "omega") > Transitions(hist, "alpha", "alpha")
              THEN "omega" ELSE "alpha"
         ELSE IF Transitions(hist, "omega", "alpha") > Transitions(hist, "omega", "omega")
              THEN "alpha" ELSE "omega"

MethodNames == <<"Frequency analysis", "Last 5 values",
                 "Pattern analysis", "Probabilistic model">>

\* methods[i].predict(hist)
Predict(i, hist) ==
    CASE i = 1 -> PredictFrequency(hist)
      [] i = 2 -> PredictLast5(hist)
      [] i = 3 -> PredictPattern(hist)
      [] i = 4 -> PredictProbability(hist)

\* accuracy is the number (num / den) * 100, kept exact
ZeroAccuracy == [num |-> 0, den |-> 1]
AccuracyOf(correct, predictions) == [num |-> correct, den |-> predictions]
AccGreater(a, b) == a.num * b.den > b.num * a.den

InitialMethods ==
    [i \in 1..4 |-> [name |-> MethodNames[i], accuracy |-> ZeroAccuracy,
                     predictions |-> 0, correct |-> 0, lastPrediction |-> Null]]

\* ------------------------------------------------------- makePrediction
WithLastPrediction(meths, hist) ==
    [i \in 1..4 |-> [meths[i] EXCEPT !.lastPrediction = Predict(i, hist)]]

\* updatedMethods.reduce((best, current) =>
\*     current.accuracy > best.accuracy ? current : best), as an index
RECURSIVE ReduceBest(_, _, _)
ReduceBest(meths, best, i) ==
    IF i > Len(meths) THEN best
    ELSE ReduceBest(meths,
                    IF AccGreater(meths[i].accuracy, meths[best].accuracy)
                    THEN i ELSE best,
                    i + 1)

\* variant: the reduction keeps the later method on equal accuracy (>=)
RECURSIVE ReduceBestLast(_, _, _)
ReduceBestLast(meths, best, i) ==
    IF i > Len(meths) THEN best
    ELSE ReduceBestLast(meths,
                        IF ~AccGreater(meths[best].accuracy, meths[i].accuracy)
                        THEN i ELSE best,
                        i + 1)

BestIndexLastMaximum(meths) == ReduceBestLast(meths, 1, 2)

BestIndex(meths) == ReduceBest(meths, 1, 2)

\* variant: the best method is taken from the methods of the previous render
PredictionEffectStaleBest(hist, meths) ==
    IF Len(hist) > 0
    THEN LET updatedMethods == WithLastPrediction(meths, hist)
             best == BestIndex(methods)
         IN /\ currentPrediction' = updatedMethods[best].lastPrediction
            /\ bestMethod' = updatedMethods[best].name
            /\ methods' = updatedMethods
    ELSE /\ methods' = meths
         /\ UNCHANGED <<currentPrediction, bestMethod>>

\* the effect on [history]: runs makePrediction on the committed render
\* (hist, meths) when hist is not empty
PredictionEffect(hist, meths) ==
    IF Len(hist) > 0
    THEN LET updatedMethods == WithLastPrediction(meths, hist)
             best == BestIndex(updatedMethods)
         IN /\ currentPrediction' = updatedMethods[best].lastPrediction
            /\ bestMethod' = updatedMethods[best].name
            /\ methods' = updatedMethods
    ELSE /\ methods' = meths
         /\ UNCHANGED <<currentPrediction, bestMethod>>

\* ------------------------------------------------------------ addResult
\* variant: a guard that never rejects
DebouncedNever(hist, t) ==
    Len(hist) > 0 /\ t - hist[Len(hist)].timestamp < 0

\* variant: the window is one sampling period, bound included
DebouncedWithinPeriod(hist, t) ==
    Len(hist) > 0 /\ t - hist[Len(hist)].timestamp <= IntervalMs

\* the debounce guard of addResult, on the history its closure holds
Debounced(hist, t) ==
    Len(hist) > 0 /\ t - hist[Len(hist)].timestamp < DebounceMs

\* variant: predictions is not incremented
ScoredMethodsKeepsPredictions(meths, hist, result) ==
    [i \in 1..4 |->
        LET isCorrect == IF Predict(i, hist) = result THEN 1 ELSE 0 IN
        [meths[i] EXCEPT !.correct = meths[i].correct + isCorrect,
                         !.accuracy = AccuracyOf(meths[i].correct + isCorrect,
                                                 meths[i].predictions + 1)]]

ScoredMethods(meths, hist, result) ==
    [i \in 1..4 |->
        LET isCorrect == IF Predict(i, hist) = result THEN 1 ELSE 0 IN
        [meths[i] EXCEPT !.predictions = meths[i].predictions + 1,
                         !.correct = meths[i].correct + isCorrect,
                         !.accuracy = AccuracyOf(meths[i].correct + isCorrect,
                                                 meths[i].predictions + 1)]]

\* variant: the id is the time in whole sampling periods
NewEntryCoarseId(result) ==
    [id |-> now \div IntervalMs, result |-> result, timestamp |-> now]

NewEntry(result) == [id |-> now, result |-> result, timestamp |-> now]

\* variant: the scoring is not conditioned on currentPrediction
AddResultAlwaysScored(hist, meths, prediction, result) ==
    LET setHistory == Append(hist, NewEntry(result))
    IN /\ history' = setHistory
       /\ PredictionEffect(setHistory, ScoredMethods(meths, hist, result))

\* addResult as seen by a closure holding (hist, meths, prediction); the
\* state setters replace the current state, then the [history] effect runs.
\* Sets history, methods, currentPrediction, bestMethod.
AddResultAccepted(hist, meths, prediction, result) ==
    LET setMethods == IF prediction # Null
                      THEN ScoredMethods(meths, hist, result)
                      ELSE methods
        setHistory == Append(hist, NewEntry(result))
    IN /\ history' = setHistory
       /\ PredictionEffect(setHistory, setMethods)

\* what a step did: the handler, the outcome of the debounce guard, the
\* toast shown and, for a firing of the interval, the frame it sampled
Event(op, dispatch, toast) ==
    [op |-> op, dispatch |-> dispatch, toast |-> toast, sample |-> NullObject]

\* variant: the debounce guard sits after the scoring
AddResultScoresBeforeGuard(result) ==
    /\ ~isMonitoring
    /\ IF Debounced(history, now)
       THEN /\ methods' = ScoredMethods(methods, history, result)
            /\ event' = Event("addResult", "rejected", "none")
            /\ UNCHANGED <<history, currentPrediction, bestMethod,
                           captureVars, now>>
       ELSE /\ Len(history) < MaxHist
            /\ AddResultAccepted(history, methods, currentPrediction, result)
            /\ event' = Event("addResult", "accepted", "Result added")
            /\ UNCHANGED <<captureVars, now>>

\* a click on one of the two manual-entry buttons (disabled while
\* monitoring), on a history of fewer than cap entries
AddResultWithin(result, cap) ==
    /\ ~isMonitoring
    /\ IF Debounced(history, now)
       THEN /\ event' = Event("addResult", "rejected", "none")
            /\ UNCHANGED <<progVars, now>>
       ELSE /\ Len(history) < cap
            /\ AddResultAccepted(history, methods, currentPrediction, result)
            /\ event' = Event("addResult", "accepted", "Result added")
            /\ UNCHANGED <<captureVars, now>>

AddResult(result) == AddResultWithin(result, MaxHist)

\* ---------------------------------------------------------- clearHistory
\* variant: the counters are not reset
ClearHistoryKeepsCounters ==
    /\ Len(history) > 0
    /\ history' = <<>>
    /\ currentPrediction' = Null
    /\ bestMethod' = ""
    /\ event' = Event("clearHistory", "none", "none")
    /\ UNCHANGED <<methods, captureVars, now>>

\* variant: the best-method name is not reset
ClearHistoryKeepsBest ==
    /\ Len(history) > 0
    /\ history' = <<>>
    /\ currentPrediction' = Null
    /\ methods' = [i \in 1..4 |-> [methods[i] EXCEPT !.accuracy = ZeroAccuracy,
                                                     !.predictions = 0,
                                                     !.correct = 0]]
    /\ event' = Event("clearHistory", "none", "none")
    /\ UNCHANGED <<bestMethod, captureVars, now>>

\* variant: the current prediction is not reset
ClearHistoryKeepsPrediction ==
    /\ Len(history) > 0
    /\ history' = <<>>
    /\ bestMethod' = ""
    /\ methods' = [i \in 1..4 |-> [methods[i] EXCEPT !.accuracy = ZeroAccuracy,
                                                     !.predictions = 0,
                                                     !.correct = 0]]
    /\ event' = Event("clearHistory", "none", "none")
    /\ UNCHANGED <<currentPrediction, captureVars, now>>

\* variant: the sampling interval is started again when the history changes
ClearHistoryRestartsInterval ==
    /\ Len(history) > 0
    /\ history' = <<>>
    /\ currentPrediction' = Null
    /\ bestMethod' = ""
    /\ methods' = [i \in 1..4 |-> [methods[i] EXCEPT !.accuracy = ZeroAccuracy,
                                                     !.predictions = 0,
                                                     !.correct = 0]]
    /\ interval' = IF interval.active
                   THEN [interval EXCEPT !.due = now + IntervalMs,
                                         !.closure.history = <<>>]
                   ELSE interval
    /\ event' = Event("clearHistory", "none", "none")
    /\ UNCHANGED <<isCapturing, captureArea, isMonitoring, showSettings,
                   sensitivity, lastDetected, streamRef, streamTracks, now>>

ClearHistory ==
    /\ Len(history) > 0
    /\ history' = <<>>
    /\ currentPrediction' = Null
    /\ bestMethod' = ""
    /\ methods' = [i \in 1..4 |-> [methods[i] EXCEPT !.accuracy = ZeroAccuracy,
                                                     !.predictions = 0,
                                                     !.correct = 0]]
    /\ event' = Event("clearHistory", "none", "none")
    /\ UNCHANGED <<captureVars, now>>

\* ------------------------------------------------------ screen capture
\* variant: the start button is offered whenever monitoring is off
StartScreenCaptureWhileCapturing(ok) ==
    /\ ~isMonitoring
    /\ IF ok
       THEN /\ streamRef' = "stream"
            /\ streamTracks' = "live"
            /\ isCapturing' = TRUE
            /\ event' = Event("startScreenCapture", "none", "Screen capture active")
       ELSE /\ event' = Event("startScreenCapture", "none", "Error")
            /\ UNCHANGED <<streamRef, streamTracks, isCapturing>>
    /\ UNCHANGED <<history, currentPrediction, bestMethod, methods, captureArea,
                   isMonitoring, showSettings, sensitivity, lastDetected,
                   interval, now>>

\* variant: isCapturing is set before the stream is awaited
StartScreenCaptureFlagsFirst(ok) ==
    /\ ~isCapturing /\ ~isMonitoring
    /\ isCapturing' = TRUE
    /\ IF ok
       THEN /\ streamRef' = "stream"
            /\ streamTracks' = "live"
            /\ event' = Event("startScreenCapture", "none", "Screen capture active")
       ELSE /\ event' = Event("startScreenCapture", "none", "Error")
            /\ UNCHANGED <<streamRef, streamTracks>>
    /\ UNCHANGED <<history, currentPrediction, bestMethod, methods, captureArea,
                   isMonitoring, showSettings, sensitivity, lastDetected,
                   interval, now>>

\* startScreenCapture: getDisplayMedia resolves (ok) or rejects
StartScreenCapture(ok) ==
    /\ ~isCapturing /\ ~isMonitoring
    /\ IF ok
       THEN /\ streamRef' = "stream"
            /\ streamTracks' = "live"
            /\ isCapturing' = TRUE
            /\ event' = Event("startScreenCapture", "none", "Screen capture active")
       ELSE /\ event' = Event("startScreenCapture", "none", "Error")
            /\ UNCHANGED <<streamRef, streamTracks, isCapturing>>
    /\ UNCHANGED <<history, currentPrediction, bestMethod, methods, captureArea,
                   isMonitoring, showSettings, sensitivity, lastDetected,
                   interval, now>>

\* both "configure" buttons: shown while capturing, or in the region card
\* while monitoring
OpenSettings ==
    /\ isCapturing \/ (captureArea # NullObject /\ isMonitoring)
    /\ showSettings' = TRUE
    /\ event' = Event("openSettings", "none", "none")
    /\ UNCHANGED <<history, currentPrediction, bestMethod, methods, isCapturing,
                   captureArea, isMonitoring, sensitivity, lastDetected,
                   streamRef, streamTracks, interval, now>>

\* the dialog is rendered when showSettings && (isCapturing || isMonitoring)
SettingsShown == showSettings /\ (isCapturing \/ isMonitoring)

CloseSettings ==
    /\ SettingsShown
    /\ showSettings' = FALSE
    /\ event' = Event("closeSettings", "none", "none")
    /\ UNCHANGED <<history, currentPrediction, bestMethod, methods, isCapturing,
                   captureArea, isMonitoring, sensitivity, lastDetected,
                   streamRef, streamTracks, interval, now>>

\* the slider of the dialog: onSensitivityChange = setSensitivity
SetSensitivity(v) ==
    /\ SettingsShown
    /\ sensitivity' = v
    /\ event' = Event("setSensitivity", "none", "none")
    /\ UNCHANGED <<history, currentPrediction, bestMethod, methods, isCapturing,
                   captureArea, isMonitoring, showSettings, lastDetected,
                   streamRef, streamTracks, interval, now>>

\* what the analyzeScreen of the current render holds
Closure(hist, meths, prediction, sens, area) ==
    [history |-> hist, methods |-> meths, currentPrediction |-> prediction,
     sensitivity |-> sens, captureArea |-> area]

\* the effect on [isMonitoring, captureArea]: clears the previous interval
\* and, when monitoring with a region, starts one bound to the new render
\* the timers of the component still running once the cleanup of the
\* previous effect (clearInterval of the interval it started) has run
TimersAfterCleanup == IF interval.active THEN interval.timers - 1 ELSE 0

\* variant: the effect has no cleanup, the previous interval keeps running
IntervalEffectNoCleanup(monitoring, area) ==
    interval' = IF monitoring /\ area # NullObject
                THEN [active |-> TRUE, due |-> now + IntervalMs,
                      closure |-> Closure(history, methods, currentPrediction,
                                          sensitivity, area),
                      lastCycle |-> IF interval.active
                                    THEN interval.lastCycle ELSE NoCycle,
                      timers |-> (IF interval.active THEN interval.timers ELSE 0) + 1]
                ELSE NoInterval

\* (lastCycle records when the monitoring session last ran a cycle, timers
\* how many intervals of the component are running)
IntervalEffect(monitoring, area) ==
    interval' = IF monitoring /\ area # NullObject
                THEN [active |-> TRUE, due |-> now + IntervalMs,
                      closure |-> Closure(history, methods, currentPrediction,
                                          sensitivity, area),
                      lastCycle |-> IF interval.active
                                    THEN interval.lastCycle ELSE NoCycle,
                      timers |-> TimersAfterCleanup + 1]
                ELSE NoInterval

\* a click on "apply" with a selection of w x h
SelectionEvent(toast, w, h) ==
    [op |-> "confirmSelection", dispatch |-> "none", toast |-> toast,
     sample |-> [width |-> w, height |-> h]]

\* variant: a side of exactly 50 is accepted (>=)
ConfirmSelectionAtLeastMinSide(w, h) ==
    /\ SettingsShown
    /\ IF w >= MinSide /\ h >= MinSide
       THEN /\ captureArea' = [width |-> w, height |-> h]
            /\ isMonitoring' = TRUE
            /\ showSettings' = FALSE
            /\ IntervalEffect(TRUE, [width |-> w, height |-> h])
            /\ event' = SelectionEvent("Monitoring started", w, h)
       ELSE /\ event' = SelectionEvent("none", w, h)
            /\ UNCHANGED <<captureArea, isMonitoring, showSettings, interval>>
    /\ UNCHANGED <<history, currentPrediction, bestMethod, methods, isCapturing,
                   sensitivity, lastDetected, streamRef, streamTracks, now>>

\* confirmSelection of the dialog, with handleAreaSelect and onClose
ConfirmSelection(w, h) ==
    /\ SettingsShown
    /\ IF w > MinSide /\ h > MinSide
       THEN /\ captureArea' = [width |-> w, height |-> h]
            /\ isMonitoring' = TRUE
            /\ showSettings' = FALSE
            /\ IntervalEffect(TRUE, [width |-> w, height |-> h])
            /\ event' = SelectionEvent("Monitoring started", w, h)
       ELSE /\ event' = SelectionEvent("none", w, h)
            /\ UNCHANGED <<captureArea, isMonitoring, showSettings, interval>>
    /\ UNCHANGED <<history, currentPrediction, bestMethod, methods, isCapturing,
                   sensitivity, lastDetected, streamRef, streamTracks, now>>

\* variant: the interval is not cleared
StopMonitoringKeepsInterval ==
    /\ isMonitoring
    /\ isMonitoring' = FALSE
    /\ IF streamRef # Null
       THEN streamRef' = Null /\ streamTracks' = "stopped"
       ELSE UNCHANGED <<streamRef, streamTracks>>
    /\ captureArea' = NullObject
    /\ event' = Event("stopMonitoring", "none", "Monitoring stopped")
    /\ UNCHANGED <<history, currentPrediction, bestMethod, methods, isCapturing,
                   showSettings, sensitivity, lastDetected, interval, now>>

\* variant: the region is kept
StopMonitoringKeepsRegion ==
    /\ isMonitoring
    /\ isMonitoring' = FALSE
    /\ IF streamRef # Null
       THEN streamRef' = Null /\ streamTracks' = "stopped"
       ELSE UNCHANGED <<streamRef, streamTracks>>
    /\ IntervalEffect(FALSE, captureArea)
    /\ event' = Event("stopMonitoring", "none", "Monitoring stopped")
    /\ UNCHANGED <<history, currentPrediction, bestMethod, methods, isCapturing,
                   captureArea, showSettings, sensitivity, lastDetected, now>>

StopMonitoring ==
    /\ isMonitoring
    /\ isMonitoring' = FALSE
    /\ IF streamRef # Null
       THEN streamRef' = Null /\ streamTracks' = "stopped"
       ELSE UNCHANGED <<streamRef, streamTracks>>
    /\ captureArea' = NullObject
    /\ IntervalEffect(FALSE, NullObject)
    /\ event' = Event("stopMonitoring", "none", "Monitoring stopped")
    /\ UNCHANGED <<history, currentPrediction, bestMethod, methods, isCapturing,
                   showSettings, sensitivity, lastDetected, now>>

\* ---------------------------------------------------------- analyzeScreen
Fraction(matching, total) == [num |-> matching, den |-> total]
FracGreater(a, b) == a.num * b.den > b.num * a.den

\* variant: the threshold is scaled by 10 instead of 100
DetectThresholdPerTen(leftBlue, rightPurple, sens) ==
    LET threshold == Fraction(sens, 10) IN
    IF FracGreater(leftBlue, rightPurple) /\ FracGreater(leftBlue, threshold)
    THEN "alpha"
    ELSE IF FracGreater(rightPurple, leftBlue) /\ FracGreater(rightPurple, threshold)
    THEN "omega"
    ELSE Null

\* const threshold = sensitivity / 100
Threshold(sens) == Fraction(sens, 100)

\* the decision of analyzeScreen on the two dominance fractions
Detect(leftBlue, rightPurple, sens) ==
    LET threshold == Threshold(sens) IN
    IF FracGreater(leftBlue, rightPurple) /\ FracGreater(leftBlue, threshold)
    THEN "alpha"
    ELSE IF FracGreater(rightPurple, leftBlue) /\ FracGreater(rightPurple, threshold)
    THEN "omega"
    ELSE Null

\* the pixels the sampled frames are made of: [r, g, b]
BluePixel == [r |-> 100, g |-> 220, b |-> 200]
PurplePixel == [r |-> 150, g |-> 50, b |-> 150]
GreyPixel == [r |-> 128, g |-> 128, b |-> 128]
Pixels == {BluePixel, PurplePixel, GreyPixel}
\* the image data of one half of the region; the dominance of a half does
\* not depend on the order of its pixels, so one ordering of each is tried
Halves == {h \in [1..HalfPixels -> Pixels] :
              \A i \in 1..(HalfPixels - 1) : h[i].g >= h[i + 1].g}

Abs(x) == IF x < 0 THEN -x ELSE x

IsBlue(p) ==
    p.b > 180 /\ p.g > 200 /\ p.r < 150 /\ (p.g - p.r) > 50 /\ (p.b - p.r) > 30

IsPurple(p) ==
    /\ p.r > 120 /\ p.b > 120 /\ p.g < 100
    /\ Abs(p.r - p.b) < 60 /\ p.r > p.g /\ p.b > p.g

MatchingPixels(imageData, color) ==
    Cardinality({i \in DOMAIN imageData :
                    IF color = "blue" THEN IsBlue(imageData[i])
                    ELSE IF color = "purple" THEN IsPurple(imageData[i])
                    ELSE FALSE})

\* variant: the count is divided by the number of bytes (data.length)
AnalyzeColorDominancePerByte(imageData, color) ==
    Fraction(MatchingPixels(imageData, color), 4 * Cardinality(DOMAIN imageData))

\* matchingPixels / (data.length / 4)
AnalyzeColorDominance(imageData, color) ==
    Fraction(MatchingPixels(imageData, color), Cardinality(DOMAIN imageData))

TickEvent(dispatch, toast, frameOk, leftBlue, rightPurple) ==
    [op |-> "analyzeScreen", dispatch |-> dispatch, toast |-> toast,
     sample |-> [frameOk |-> frameOk, leftBlue |-> leftBlue,
                 rightPurple |-> rightPurple]]

\* variant: a frame that cannot be read ends the sampling
AnalyzeScreenFailureEndsTicks(frameOk, leftHalf, rightHalf) ==
    /\ interval.active
    /\ now = interval.due
    /\ interval' = IF frameOk
                   THEN [interval EXCEPT !.due = interval.due + IntervalMs,
                                         !.lastCycle = now]
                   ELSE NoInterval
    /\ LET c == interval.closure
           leftBlue == AnalyzeColorDominance(leftHalf, "blue")
           rightPurple == AnalyzeColorDominance(rightHalf, "purple")
           detected == Detect(leftBlue, rightPurple, c.sensitivity)
       IN IF ~frameOk \/ c.captureArea = NullObject \/ detected = Null
          THEN /\ event' = TickEvent("none", "none", frameOk, leftBlue, rightPurple)
               /\ UNCHANGED <<history, currentPrediction, bestMethod, methods,
                              lastDetected>>
          ELSE /\ lastDetected' = [result |-> detected, time |-> now]
               /\ IF Debounced(c.history, now)
                  THEN /\ event' = TickEvent("rejected", "none", frameOk,
                                             leftBlue, rightPurple)
                       /\ UNCHANGED <<history, currentPrediction, bestMethod,
                                      methods>>
                  ELSE /\ Len(c.history) < MaxHist
                       /\ AddResultAccepted(c.history, c.methods,
                                            c.currentPrediction, detected)
                       /\ event' = TickEvent("accepted", "Result added", frameOk,
                                             leftBlue, rightPurple)
    /\ UNCHANGED <<isCapturing, captureArea, isMonitoring, showSettings,
                   sensitivity, streamRef, streamTracks, now>>

\* one firing of the interval: the analyzeScreen of the render that started
\* the interval; frameOk is FALSE when no 2d context / frame can be read
AnalyzeScreen(frameOk, leftHalf, rightHalf) ==
    /\ interval.active
    /\ now = interval.due
    /\ interval' = [interval EXCEPT !.due = interval.due + IntervalMs,
                                    !.lastCycle = now]
    /\ LET c == interval.closure
           leftBlue == AnalyzeColorDominance(leftHalf, "blue")
           rightPurple == AnalyzeColorDominance(rightHalf, "purple")
           detected == Detect(leftBlue, rightPurple, c.sensitivity)
       IN IF ~frameOk \/ c.captureArea = NullObject \/ detected = Null
          THEN /\ event' = TickEvent("none", "none", frameOk, leftBlue, rightPurple)
               /\ UNCHANGED <<history, currentPrediction, bestMethod, methods,
                              lastDetected>>
          ELSE /\ lastDetected' = [result |-> detected, time |-> now]
               /\ IF Debounced(c.history, now)
                  THEN /\ event' = TickEvent("rejected", "none", frameOk,
                                             leftBlue, rightPurple)
                       /\ UNCHANGED <<history, currentPrediction, bestMethod,
                                      methods>>
                  ELSE /\ Len(c.history) < MaxHist
                       /\ AddResultAccepted(c.history, c.methods,
                                            c.currentPrediction, detected)
                       /\ event' = TickEvent("accepted", "Result added", frameOk,
                                             leftBlue, rightPurple)
    /\ UNCHANGED <<isCapturing, captureArea, isMonitoring, showSettings,
                   sensitivity, streamRef, streamTracks, now>>

\* ------------------------------------------------------------- the clock
\* d ms pass; the interval fires when it is due, so time does not pass it
AdvanceWithin(d, fineUntil, maxTime) ==
    /\ now + d <= maxTime
    /\ d < IntervalMs => now + d <= fineUntil
    /\ interval.active => now + d <= interval.due
    /\ now' = now + d
    /\ event' = Event("advance", "none", "none")
    /\ UNCHANGED progVars

Advance(d) == AdvanceWithin(d, FineUntil, MaxTime)

Init ==
    /\ history = <<>>
    /\ currentPrediction = Null
    /\ bestMethod = ""
    /\ isCapturing = FALSE
    /\ captureArea = NullObject
    /\ isMonitoring = FALSE
    /\ showSettings = FALSE
    /\ sensitivity = InitialSensitivity
    /\ lastDetected = NullObject
    /\ streamRef = Null
    /\ streamTracks = "none"
    /\ methods = InitialMethods
    /\ interval = NoInterval
    /\ now = 0
    /\ event = Event("init", "none", "none")

Next ==
    \/ \E r \in Results : AddResult(r)
    \/ ClearHistory
    \/ \E ok \in BOOLEAN : StartScreenCapture(ok)
    \/ OpenSettings
    \/ CloseSettings
    \/ \E v \in SliderInputs : SetSensitivity(v)
    \/ \E w \in Sides, h \in Sides : ConfirmSelection(w, h)
    \/ StopMonitoring
    \/ \E ok \in BOOLEAN, l \in Halves, r \in Halves :
          AnalyzeScreen(ok, l, r)
    \/ \E d \in Delays : Advance(d)

Spec == Init /\ [][Next]_vars

\* ------------------------------------------- the strategies on their own
\* the four predict functions applied to every prefix of up to MaxPrefix
\* outcomes: the prefix is built in history, the forecasts are stored the
\* way makePrediction stores them (lastPrediction)
ExtendPrefix(r) ==
    /\ Len(history) < MaxPrefix
    /\ history' = Append(history, NewEntry(r))
    /\ methods' = InitialMethods
    /\ now' = now + DebounceMs
    /\ event' = Event("extendPrefix", "none", "none")
    /\ UNCHANGED <<currentPrediction, bestMethod, captureVars>>

ApplyStrategies ==
    /\ methods = InitialMethods
    /\ methods' = WithLastPrediction(methods, history)
    /\ event' = Event("predict", "none", "none")
    /\ UNCHANGED <<history, currentPrediction, bestMethod, captureVars, now>>

NextPredict ==
    \/ \E r \in Results : ExtendPrefix(r)
    \/ ApplyStrategies

SpecPredict == Init /\ [][NextPredict]_vars

\* ------------------------------------------------- manual entry on its own
\* the golden sequence of outcomes and the session that can enter it by
\* hand: adds, clears, and the clock in steps of the debounce window
ScenarioOutcomes == <<"alpha", "alpha", "omega", "alpha", "omega">>
ScenarioTime == Len(ScenarioOutcomes) * DebounceMs

NextScenario ==
    \/ \E r \in Results : AddResultWithin(r, Len(ScenarioOutcomes))
    \/ ClearHistory
    \/ AdvanceWithin(DebounceMs, ScenarioTime, ScenarioTime)

SpecScenario == Init /\ [][NextScenario]_vars

\* -------------------------------------------- the monitoring session alone
\* the capture controls, the dialog and the interval, with the clock in
\* steps of the debounce window up to one step past the first cycle
SessionFineUntil == IntervalMs + DebounceMs

NextSession ==
    \/ \E ok \in BOOLEAN : StartScreenCapture(ok)
    \/ OpenSettings
    \/ CloseSettings
    \/ \E w \in Sides, h \in Sides : ConfirmSelection(w, h)
    \/ StopMonitoring
    \/ \E ok \in BOOLEAN, l \in Halves, r \in Halves :
          AnalyzeScreen(ok, l, r)
    \/ \E d \in Delays : AdvanceWithin(d, SessionFineUntil, MaxTime)

SpecSession == Init /\ [][NextSession]_vars

\* ------------------------------------------------- the classifier alone
\* pixels on either side of the limits of the two colour tests
PaleBluePixel == [r |-> 150, g |-> 220, b |-> 200]
DullPurplePixel == [r |-> 150, g |-> 100, b |-> 150]
WidePurplePixel == [r |-> 121, g |-> 50, b |-> 181]
ProbePixels == Pixels \cup {PaleBluePixel, DullPurplePixel, WidePurplePixel}
ProbeHalves == {h \in [1..HalfPixels -> ProbePixels] :
                   \A i \in 1..(HalfPixels - 1) :
                       \/ h[i].g > h[i + 1].g
                       \/ h[i].g = h[i + 1].g /\ h[i].r >= h[i + 1].r}

\* the two calls of analyzeColorDominance made by analyzeScreen on a frame
ClassifyFrame(leftHalf, rightHalf) ==
    /\ event' = [op |-> "classifyFrame", dispatch |-> "none", toast |-> "none",
                 sample |-> [left |-> leftHalf, right |-> rightHalf,
                             leftBlue |-> AnalyzeColorDominance(leftHalf, "blue"),
                             rightPurple |-> AnalyzeColorDominance(rightHalf, "purple")]]
    /\ UNCHANGED <<progVars, now>>

NextClassify == \E l \in ProbeHalves, r \in ProbeHalves : ClassifyFrame(l, r)

SpecClassify == Init /\ [][NextClassify]_vars

\* ================================================================ claims
Last(hist) == hist[Len(hist)]
IsPrefix(a, b) == Len(a) <= Len(b) /\ SubSeq(b, 1, Len(a)) = a
AllCountersZero ==
    \A i \in 1..4 : /\ methods[i].predictions = 0
                    /\ methods[i].correct = 0
                    /\ methods[i].accuracy.num = 0
\* the history was emptied by clearHistory and nothing was added since:
\* lastPrediction is set by the first makePrediction and never reset
AfterClear == history = <<>> /\ methods[1].lastPrediction # Null

\* C1: in every reachable state each method has predictions = n - 1 for a
\* history of n >= 1 entries (0 for the empty history), and its accuracy is
\* correct / predictions * 100 when predictions > 0, else 0.
C1_CountsFollowHistory ==
    \A i \in 1..4 :
        /\ methods[i].predictions =
               (IF Len(history) >= 1 THEN Len(history) - 1 ELSE 0)
        /\ IF methods[i].predictions > 0
           THEN methods[i].accuracy.num * methods[i].predictions
                    = methods[i].correct * methods[i].accuracy.den
           ELSE methods[i].accuracy.num = 0

C1_Witness ==
    /\ Len(history) = 3
    /\ event.op = "analyzeScreen" /\ event.dispatch = "accepted"
    /\ methods[1].predictions = 2
    /\ methods[1].correct # methods[2].correct

\* C2 (as claimed): every accepted addResult, manual or from a tick, makes
\* the history one longer, with the new entry last and the earlier entries
\* unchanged and in order; only clearHistory removes entries.
C2_AcceptedAppendsOne ==
    [][/\ event'.dispatch = "accepted" =>
            /\ Len(history') = Len(history) + 1
            /\ IsPrefix(history, history')
       /\ ~IsPrefix(history, history') => event'.op = "clearHistory"]_vars

\* C3: an addResult call made less than 5000 ms after the timestamp of the
\* history's last entry leaves the history length unchanged.
C3_DebounceKeepsLength ==
    [][(/\ event'.dispatch # "none"
        /\ Len(history) > 0
        /\ now - Last(history).timestamp < DebounceMs)
       => Len(history') = Len(history)]_vars

C3_Witness ==
    /\ event.op = "addResult" /\ event.dispatch = "rejected"
    /\ Len(history) > 0
    /\ now - Last(history).timestamp < DebounceMs

\* C4: a dispatch rejected by the debounce guard changes no state: no entry,
\* no counter, no last-detected indication, and it shows no notification.
C4_RejectedChangesNothing ==
    [][event'.dispatch = "rejected" =>
           /\ UNCHANGED progVars
           /\ event'.toast = "none"]_vars

C4_Witness ==
    /\ event.dispatch = "rejected" /\ event.toast = "none"
    /\ Len(history) = 2 /\ bestMethod # ""

\* C5 (as claimed): an outcome r accepted onto a non-empty history h is
\* scored against each method's prediction from h: predictions grows by 1
\* and correct by 1 if the prediction equals r, by 0 otherwise.
C5_ScoredOnCurrentHistory ==
    [][(event'.dispatch = "accepted" /\ Len(history) > 0) =>
           \A i \in 1..4 :
               /\ methods'[i].predictions = methods[i].predictions + 1
               /\ methods'[i].correct = methods[i].correct +
                      (IF Predict(i, history) = Last(history').result
                       THEN 1 ELSE 0)]_vars

\* C6 (as claimed): the scoring is skipped exactly when the outcome is added
\* to an empty history.
C6_SkippedIffEmpty ==
    [][event'.dispatch = "accepted" =>
           IF Len(history) = 0
           THEN \A i \in 1..4 :
                    /\ methods'[i].predictions = methods[i].predictions
                    /\ methods'[i].correct = methods[i].correct
                    /\ methods'[i].accuracy = methods[i].accuracy
           ELSE \A i \in 1..4 :
                    methods'[i].predictions # methods[i].predictions]_vars

\* C7 (as claimed): the history recorded by an accepted addResult is the
\* prefix it read plus the new entry, and that prefix is the latest history.
C7_PrefixIsLatest ==
    [][event'.dispatch = "accepted" =>
           LET prefix == IF event'.op = "analyzeScreen"
                         THEN interval.closure.history ELSE history
           IN /\ history' = Append(prefix, Last(history'))
              /\ prefix = history]_vars

\* C8: clearHistory empties the history and zeroes every method's counters
\* in one step; the history is never empty with a non-zero counter.
C8_ClearResetsTogether ==
    (event.op = "clearHistory" \/ history = <<>>)
        => (history = <<>> /\ AllCountersZero)

C8_Witness ==
    /\ event.op = "clearHistory" /\ history = <<>>
    /\ isMonitoring /\ methods[1].lastPrediction # Null

C10_BestIsFirstMaximum ==
    event.dispatch = "accepted" =>
        \E i \in 1..4 :
            /\ bestMethod = methods[i].name
            /\ \A j \in 1..4 : ~AccGreater(methods[j].accuracy, methods[i].accuracy)
            /\ \A j \in 1..(i - 1) : AccGreater(methods[i].accuracy, methods[j].accuracy)

C10_Witness ==
    /\ event.dispatch = "accepted"
    /\ bestMethod = MethodNames[2]
    /\ ~AccGreater(methods[2].accuracy, methods[3].accuracy)
    /\ AccGreater(methods[2].accuracy, methods[1].accuracy)

\* ------------------------------------------------------------ C11 .. C20
\* number of entries of hist at positions from..to whose result is r
RECURSIVE Occurrences(_, _, _, _)
Occurrences(hist, r, from, to) ==
    IF from > to THEN 0
    ELSE (IF hist[to].result = r THEN 1 ELSE 0) + Occurrences(hist, r, from, to - 1)

\* number of adjacent pairs a -> b in hist
RECURSIVE Pairs(_, _, _, _)
Pairs(hist, a, b, i) ==
    IF i < 1 THEN 0
    ELSE (IF hist[i].result = a /\ hist[i + 1].result = b THEN 1 ELSE 0)
             + Pairs(hist, a, b, i - 1)

Opposite(r) == IF r = "alpha" THEN "omega" ELSE "alpha"
Max(a, b) == IF a > b THEN a ELSE b
ResultsOf(hist) == [i \in 1..Len(hist) |-> hist[i].result]
StrategiesApplied == methods[1].lastPrediction # Null

C12_CorrectWithinPredictions ==
    \A i \in 1..4 :
        /\ 0 <= methods[i].correct
        /\ methods[i].correct <= methods[i].predictions
        /\ 0 <= methods[i].accuracy.num * 100
        /\ methods[i].accuracy.num * 100 <= 100 * methods[i].accuracy.den

C12_Witness ==
    /\ \E i \in 1..4 : methods[i].correct = 2 /\ methods[i].predictions = 2
    /\ \E i \in 1..4 : methods[i].correct = 0 /\ methods[i].predictions = 2

\* C13: on every prefix the frequency strategy predicts alpha iff the
\* prefix holds strictly more alpha than omega entries, and omega otherwise
\* (so omega on equal counts, the empty prefix included).
C13_FrequencyMajority ==
    StrategiesApplied =>
        LET a == Occurrences(history, "alpha", 1, Len(history))
            o == Occurrences(history, "omega", 1, Len(history))
        IN methods[1].lastPrediction = (IF a > o THEN "alpha" ELSE "omega")

C13_Witness ==
    /\ StrategiesApplied /\ Len(history) = 6
    /\ Occurrences(history, "alpha", 1, 6) = 3
    /\ methods[1].lastPrediction = "omega"

\* C14: on every prefix the recent-window strategy predicts omega iff more
\* than 2 of the last min(5, length) entries are alpha, and alpha otherwise;
\* older entries have no influence, and a prefix of fewer than 3 entries
\* gives alpha.
C14_RecentWindow ==
    StrategiesApplied =>
        LET n == Len(history)
            recent == Occurrences(history, "alpha", Max(1, n - 4), n)
        IN /\ methods[2].lastPrediction = (IF recent > 2 THEN "omega" ELSE "alpha")
           /\ n < 3 => methods[2].lastPrediction = "alpha"

C14_Witness ==
    /\ StrategiesApplied /\ Len(history) = 7
    /\ Occurrences(history, "alpha", 1, 2) = 2
    /\ Occurrences(history, "alpha", 3, 7) = 2
    /\ methods[2].lastPrediction = "alpha"

\* C15: the short-pattern strategy predicts alpha on fewer than 3 entries;
\* otherwise omega when the last 3 are all alpha, alpha when they are all
\* omega, else the opposite of the most recent entry; hence on 3 or more
\* entries always the opposite of the last one.
C15_ShortPattern ==
    StrategiesApplied =>
        LET n == Len(history)
            a3 == Occurrences(history, "alpha", n - 2, n)
        IN IF n < 3 THEN methods[3].lastPrediction = "alpha"
           ELSE /\ a3 = 3 => methods[3].lastPrediction = "omega"
                /\ a3 = 0 => methods[3].lastPrediction = "alpha"
                /\ a3 \in {1, 2} =>
                       methods[3].lastPrediction = Opposite(history[n].result)
                /\ methods[3].lastPrediction = Opposite(history[n].result)

C15_Witness ==
    /\ StrategiesApplied /\ Len(history) = 4
    /\ Occurrences(history, "alpha", 2, 4) = 2
    /\ history[4].result = "alpha"
    /\ methods[3].lastPrediction = "omega"

\* C16: the transition strategy predicts alpha on fewer than 2 entries;
\* otherwise, with L the last entry, it predicts the successor of L that
\* occurred strictly more often over the whole prefix, and L on equal counts.
C16_TransitionModel ==
    StrategiesApplied =>
        LET n == Len(history) IN
        IF n < 2 THEN methods[4].lastPrediction = "alpha"
        ELSE LET l == history[n].result
                 toAlpha == Pairs(history, l, "alpha", n - 1)
                 toOmega == Pairs(history, l, "omega", n - 1)
             IN methods[4].lastPrediction =
                    (IF toAlpha > toOmega THEN "alpha"
                     ELSE IF toOmega > toAlpha THEN "omega"
                     ELSE l)

C16_Witness ==
    /\ StrategiesApplied /\ Len(history) = 6
    /\ history[6].result = "omega"
    /\ Pairs(history, "omega", "alpha", 5) = 1
    /\ Pairs(history, "omega", "omega", 5) = 1
    /\ methods[4].lastPrediction = "omega"

\* C17: after alpha, alpha, omega, alpha, omega entered from the empty state,
\* each at least 5 s after the previous one, the frequency method has
\* predictions = 4 and correct = the number of the last four outcomes its
\* rule forecasts from the preceding prefix, which is 2 (accuracy 50).
C17_GoldenSequence ==
    ResultsOf(history) = ScenarioOutcomes =>
        LET replayed ==
                Cardinality({k \in 2..Len(history) :
                    history[k].result =
                        (IF Occurrences(history, "alpha", 1, k - 1)
                                > Occurrences(history, "omega", 1, k - 1)
                         THEN "alpha" ELSE "omega")})
        IN /\ methods[1].predictions = 4
           /\ methods[1].correct = replayed
           /\ methods[1].correct = 2
           /\ methods[1].accuracy.num * 100 = 50 * methods[1].accuracy.den

C17_Witness ==
    /\ ResultsOf(history) = ScenarioOutcomes
    /\ \A k \in 2..Len(history) :
           history[k].timestamp - history[k - 1].timestamp >= DebounceMs
    /\ event.dispatch = "accepted"

\* the step is a firing of the interval that read a frame
SampledTick == event'.op = "analyzeScreen" /\ event'.sample.frameOk
\* the step detected r: analyzeScreen recorded it and dispatched it
DetectedNow(r) ==
    /\ event'.dispatch # "none"
    /\ lastDetected' = [result |-> r, time |-> now]

\* C18 (as claimed): with s the sensitivity, a tick detects alpha iff
\* leftBlue > rightPurple and leftBlue > s/100, omega iff rightPurple >
\* leftBlue and rightPurple > s/100, and otherwise detects nothing and
\* changes no state.
C18_DecisionRule ==
    [][SampledTick =>
         LET l == event'.sample.leftBlue
             r == event'.sample.rightPurple
             threshold == Fraction(sensitivity, 100)
             isAlpha == FracGreater(l, r) /\ FracGreater(l, threshold)
             isOmega == FracGreater(r, l) /\ FracGreater(r, threshold)
         IN /\ isAlpha <=> DetectedNow("alpha")
            /\ isOmega <=> DetectedNow("omega")
            /\ (~isAlpha /\ ~isOmega) =>
                   UNCHANGED <<history, currentPrediction, bestMethod, methods,
                               lastDetected, isCapturing, captureArea,
                               isMonitoring, showSettings, sensitivity,
                               streamRef, streamTracks>>]_vars

\* C19 (as claimed): with sensitivity 30, a tick on a frame whose left half
\* is entirely blue detects alpha, whatever the right half holds.
C19_AllBlueLeftIsAlpha ==
    [][(/\ SampledTick
        /\ sensitivity = InitialSensitivity
        /\ event'.sample.leftBlue.num = event'.sample.leftBlue.den)
       => DetectedNow("alpha")]_vars

\* C19 (amended): with sensitivity 30, a tick on a frame whose left half is
\* entirely blue and whose right half is not entirely purple detects alpha.
C19_AllBlueLeftBeatsPartPurple ==
    [][(/\ SampledTick
        /\ sensitivity = InitialSensitivity
        /\ event'.sample.leftBlue.num = event'.sample.leftBlue.den
        /\ event'.sample.rightPurple.num < event'.sample.rightPurple.den)
       => DetectedNow("alpha")]_vars

C19_Witness ==
    /\ event.op = "analyzeScreen" /\ event.sample.frameOk
    /\ sensitivity = InitialSensitivity
    /\ event.sample.leftBlue.num = event.sample.leftBlue.den
    /\ event.sample.rightPurple.num > 0
    /\ event.sample.rightPurple.num < event.sample.rightPurple.den
    /\ lastDetected = [result |-> "alpha", time |-> now]

\* C20: stopMonitoring clears the interval, stops and drops the stream and
\* discards the region in one step, and the interval fires (and so adds
\* outcomes) only while monitoring is active.
C20_StopCancelsTicks ==
    [][/\ event'.op = "stopMonitoring" =>
            /\ interval' = NoInterval
            /\ streamRef' = Null /\ streamTracks' # "live"
            /\ captureArea' = NullObject
            /\ ~isMonitoring'
       /\ event'.op = "analyzeScreen" => (isMonitoring /\ interval.active)
       /\ (~isMonitoring /\ ~isMonitoring') =>
              (\/ event'.op = "addResult"
               \/ event'.op = "clearHistory"
               \/ history' = history)]_vars

C20_Witness ==
    /\ event.op = "stopMonitoring"
    /\ streamTracks = "stopped"
    /\ interval = NoInterval
    /\ lastDetected # NullObject /\ Len(history) > 0

\* ------------------------------------------------------------ C21 .. C30
\* the step acquired a stream / stopped the tracks of one
Acquires == event'.op = "startScreenCapture" /\ streamRef' # Null
Releases == streamTracks' = "stopped" /\ streamTracks # "stopped"

\* C21: the stream is never acquired while one is held or after one was
\* held, an acquired stream is released by stopMonitoring exactly once
\* (tracks stopped only while live, never live again afterwards, and always
\* stopped once stopMonitoring has run), and a tick leaves the handle alone.
C21_SingleHandle ==
    [][/\ Acquires => (streamRef = Null /\ streamTracks = "none")
       /\ (streamRef # streamRef' \/ streamTracks # streamTracks') =>
              (Acquires \/ event'.op = "stopMonitoring")
       /\ Releases => (streamTracks = "live" /\ streamRef # Null
                       /\ event'.op = "stopMonitoring")
       /\ streamTracks = "stopped" => streamTracks' = "stopped"
       /\ event'.op = "stopMonitoring" =>
              (streamTracks' = "stopped" /\ streamRef' = Null)
       /\ (streamRef' # Null) <=> (streamTracks' = "live")
       /\ event'.op = "analyzeScreen" => UNCHANGED <<streamRef, streamTracks>>]_vars

C21_Witness ==
    /\ event.op = "stopMonitoring"
    /\ streamTracks = "stopped" /\ streamRef = Null
    /\ interval = NoInterval /\ isCapturing
    /\ lastDetected # NullObject

\* C22: a failed acquisition shows the error notification and changes
\* nothing else: not capturing, not monitoring, no stream, no region, no
\* interval, history and counters as before.
C22_FailedStartChangesNothing ==
    [][event'.op = "startScreenCapture" =>
         \/ /\ event'.toast = "Screen capture active"
            /\ streamRef' = "stream" /\ isCapturing'
         \/ /\ event'.toast = "Error"
            /\ UNCHANGED progVars
            /\ ~isCapturing' /\ ~isMonitoring'
            /\ streamRef' = Null /\ streamTracks' = "none"
            /\ captureArea' = NullObject
            /\ interval' = NoInterval]_vars

C22_Witness ==
    /\ event.op = "startScreenCapture" /\ event.toast = "Error"
    /\ ~isCapturing /\ streamRef = Null
    /\ Len(history) = 2 /\ methods[1].predictions = 1

\* C23: confirming a selection whose width or height is <= 50 changes
\* nothing, and a held region (in the state and in the interval's closure)
\* always has width > 50 and height > 50.
C23_SmallRegionRejected ==
    [][/\ (/\ event'.op = "confirmSelection"
           /\ (event'.sample.width <= MinSide \/ event'.sample.height <= MinSide))
          => (UNCHANGED progVars /\ event'.toast = "none")
       /\ captureArea' # NullObject =>
              (captureArea'.width > MinSide /\ captureArea'.height > MinSide)
       /\ interval'.active =>
              /\ interval'.closure.captureArea # NullObject
              /\ interval'.closure.captureArea.width > MinSide
              /\ interval'.closure.captureArea.height > MinSide]_vars

C23_Witness ==
    /\ event.op = "confirmSelection"
    /\ event.sample.width = MinSide /\ event.sample.height = MinSide + 1
    /\ showSettings /\ ~isMonitoring /\ captureArea = NullObject

\* C24: a tick that cannot read its frame records nothing, changes no
\* history, counter or indication, shows nothing, and leaves monitoring and
\* the interval running with the next firing one period later.
C24_FailedFrameSwallowed ==
    [][(event'.op = "analyzeScreen" /\ ~event'.sample.frameOk) =>
         /\ UNCHANGED <<history, currentPrediction, bestMethod, methods,
                        lastDetected, isCapturing, captureArea, isMonitoring,
                        showSettings, sensitivity, streamRef, streamTracks>>
         /\ event'.dispatch = "none" /\ event'.toast = "none"
         /\ isMonitoring'
         /\ interval'.active
         /\ interval'.due = now + IntervalMs
         /\ interval'.closure = interval.closure]_vars

C24_Witness ==
    /\ event.op = "analyzeScreen" /\ ~event.sample.frameOk
    /\ event.sample.leftBlue.num = event.sample.leftBlue.den
    /\ event.sample.rightPurple.num = 0
    /\ isMonitoring /\ interval.active /\ interval.due = now + IntervalMs
    /\ lastDetected = NullObject

\* C25 (as claimed): a cycle runs only while monitoring is active with a
\* region, and a cycle that is not the first of its monitoring session runs
\* exactly one period after the previous one.
C25_CyclesOnePeriodApart ==
    [][event'.op = "analyzeScreen" =>
         /\ isMonitoring /\ captureArea # NullObject
         /\ interval.lastCycle # NoCycle =>
                now - interval.lastCycle = IntervalMs]_vars

\* C26 (as claimed): the sensitivity is one of 10, 15, ..., 50, and the
\* threshold the decision rule of a running interval works with is the
\* sensitivity divided by 100.
C26_ThresholdIsSensitivity ==
    /\ sensitivity \in SliderValues
    /\ interval.active =>
           Threshold(interval.closure.sensitivity) = Fraction(sensitivity, 100)

\* C27: the ids of the history's entries are strictly increasing in history
\* order.
C27_IdsIncrease ==
    \A i \in 1..Len(history) : \A j \in 1..Len(history) :
        i < j => history[i].id < history[j].id

C27_Witness ==
    /\ Len(history) = 3
    /\ event.op = "analyzeScreen" /\ event.dispatch = "accepted"
    /\ methods[1].predictions = 2
    /\ history[1].id < history[2].id /\ history[2].id < history[3].id

\* C28 (as claimed): whenever monitoring is active with a region, a live
\* stream is held and the interval is running.
C28_RegionStreamTimer ==
    (isMonitoring /\ captureArea # NullObject) =>
        /\ streamRef # Null /\ streamTracks = "live"
        /\ interval.active

\* number of pixels of half at positions 1..i that pass the test
RECURSIVE Passing(_, _, _)
Passing(half, color, i) ==
    IF i < 1 THEN 0
    ELSE (IF (color = "blue" /\ IsBlue(half[i])) \/ (color = "purple" /\ IsPurple(half[i]))
          THEN 1 ELSE 0) + Passing(half, color, i - 1)

\* C29: each dominance value is the number of pixels of its half that pass
\* the test over the number of pixels of that half, between 0 and 1; the
\* left half counts blue pixels only, the right half purple pixels only, and
\* no pixel passes both tests.
C29_DominanceIsFraction ==
    event.op = "classifyFrame" =>
        LET f == event.sample IN
        /\ f.leftBlue.den > 0 /\ f.rightPurple.den > 0
        /\ f.leftBlue.num * Len(f.left)
               = Passing(f.left, "blue", Len(f.left)) * f.leftBlue.den
        /\ f.rightPurple.num * Len(f.right)
               = Passing(f.right, "purple", Len(f.right)) * f.rightPurple.den
        /\ 0 <= f.leftBlue.num /\ f.leftBlue.num <= f.leftBlue.den
        /\ 0 <= f.rightPurple.num /\ f.rightPurple.num <= f.rightPurple.den
        /\ \A i \in 1..Len(f.left) : ~(IsBlue(f.left[i]) /\ IsPurple(f.left[i]))
        /\ \A i \in 1..Len(f.right) : ~(IsBlue(f.right[i]) /\ IsPurple(f.right[i]))

C29_Witness ==
    /\ event.op = "classifyFrame"
    /\ Passing(event.sample.left, "blue", HalfPixels) = 1
    /\ Passing(event.sample.left, "purple", HalfPixels) = 1
    /\ Passing(event.sample.right, "blue", HalfPixels) = 1
    /\ Passing(event.sample.right, "purple", HalfPixels) = 0
    /\ event.sample.leftBlue.num * HalfPixels = event.sample.leftBlue.den
    /\ event.sample.rightPurple.num = 0

\* C30 (as claimed): every entry of the history after a step was in the
\* history before it or is the entry the step created, so an entry removed
\* by clearHistory never returns; and the counters never count more
\* outcomes than the history holds.
C30_ClearedStayCleared ==
    [][/\ \A i \in 1..Len(history') :
              \/ \E j \in 1..Len(history) : history[j] = history'[i]
              \/ /\ i = Len(history')
                 /\ event'.dispatch = "accepted"
                 /\ history'[i].timestamp = now
       /\ \A k \in 1..4 : methods'[k].predictions < Max(Len(history'), 1)]_vars

\* ------------------------------------------------------------ C31 .. C36
\* C31 (as claimed): a tick decides with the sensitivity of the state it
\* fires in: it detects what the decision rule gives for that sensitivity,
\* and nothing when the rule gives nothing.
C31_TickUsesCurrentSensitivity ==
    [][SampledTick =>
         LET detected == Detect(event'.sample.leftBlue,
                                event'.sample.rightPurple, sensitivity)
         IN IF detected = Null
            THEN event'.dispatch = "none" /\ lastDetected' = lastDetected
            ELSE DetectedNow(detected)]_vars

\* C32: monitoring is active iff a region is held; an accepted selection
\* sets both, stopMonitoring clears both, and no other step changes either.
C32_MonitoringIffRegion ==
    [][/\ isMonitoring' <=> (captureArea' # NullObject)
       /\ (isMonitoring' # isMonitoring \/ captureArea' # captureArea) =>
              event'.op \in {"confirmSelection", "stopMonitoring"}
       /\ (event'.op = "confirmSelection" /\ event'.toast = "Monitoring started") =>
              (isMonitoring' /\ captureArea' =
                   [width |-> event'.sample.width, height |-> event'.sample.height])
       /\ event'.op = "stopMonitoring" =>
              (~isMonitoring' /\ captureArea' = NullObject)]_vars

C32_Witness ==
    /\ event.op = "confirmSelection" /\ event.toast = "Monitoring started"
    /\ isMonitoring
    /\ captureArea = [width |-> MinSide + 1, height |-> MinSide + 1]
    /\ streamTracks = "stopped"

\* C33: at most one sampling interval is running at any time, a selection
\* made while monitoring replaces the running interval by one that fires a
\* full period later, and two cycles of a monitoring session are never less
\* than one period apart.
C33_OneTimer ==
    [][/\ interval'.active => interval'.timers = 1
       /\ (/\ event'.op = "confirmSelection"
           /\ event'.toast = "Monitoring started"
           /\ interval.active) =>
              (interval'.active /\ interval'.due = now + IntervalMs)
       /\ (event'.op = "analyzeScreen" /\ interval.lastCycle # NoCycle) =>
              now - interval.lastCycle >= IntervalMs]_vars

C33_Witness ==
    /\ event.op = "confirmSelection" /\ event.toast = "Monitoring started"
    /\ interval.active /\ interval.timers = 1
    /\ interval.lastCycle # NoCycle /\ interval.lastCycle < now
    /\ interval.due = now + IntervalMs

\* C34: the current prediction is absent iff the history is empty, and when
\* present it is the forecast of the best method (first of maximal accuracy)
\* on the whole current history.
C34_PredictionFollowsHistory ==
    IF history = <<>>
    THEN currentPrediction = Null
    ELSE /\ currentPrediction # Null
         /\ currentPrediction = Predict(BestIndex(methods), history)

C34_Witness ==
    /\ event.dispatch = "accepted"
    /\ Len(history) >= 2
    /\ BestIndex(methods) # 1
    /\ currentPrediction = "alpha"
    /\ Predict(1, history) = "omega"

\* C35: an outcome detected by a tick is never rejected by the debounce
\* guard: the last entry the tick compares against is at least 5000 ms old,
\* and the detection is appended.
C35_DetectionNeverDebounced ==
    [][(event'.op = "analyzeScreen" /\ lastDetected' # lastDetected) =>
         /\ event'.dispatch = "accepted"
         /\ Len(interval.closure.history) > 0 =>
                now - Last(interval.closure.history).timestamp >= DebounceMs
         /\ Len(history') > 0
         /\ Last(history').result = lastDetected'.result
         /\ Last(history').timestamp = now]_vars

C35_Witness ==
    /\ event.op = "analyzeScreen" /\ event.dispatch = "accepted"
    /\ Len(history) = 2
    /\ now - history[1].timestamp = IntervalMs
    /\ lastDetected = [result |-> Last(history).result, time |-> now]

\* C36: clearHistory leaves the monitoring flag, the region, the stream, the
\* interval and the sensitivity unchanged; stopMonitoring leaves the history
\* and every method's counters unchanged.
C36_DisjointFrames ==
    [][/\ event'.op = "clearHistory" =>
              UNCHANGED <<isMonitoring, captureArea, streamRef, streamTracks,
                          interval, sensitivity>>
       /\ event'.op = "stopMonitoring" =>
              /\ history' = history
              /\ \A i \in 1..4 :
                     /\ methods'[i].predictions = methods[i].predictions
                     /\ methods'[i].correct = methods[i].correct
                     /\ methods'[i].accuracy = methods[i].accuracy]_vars

C36_Witness ==
    /\ event.op = "clearHistory" /\ history = <<>>
    /\ isMonitoring /\ interval.active
    /\ Len(interval.closure.history) > 0
    /\ sensitivity # InitialSensitivity
    /\ now > 0
====
